---------------------------- MODULE Spec2Model ----------------------------
(***************************************************************************)
(* A model of the module core (internal/buf/bufmodule/module.go) and of    *)
(* the configuration entry points (package bufconfig) of buf.              *)
(*                                                                         *)
(* Strings are modelled as sequences of one-character strings, so that the *)
(* code's string computations (extension, path segments, lexicographic     *)
(* comparison, text decoding) are computed and not assumed.                *)
(***************************************************************************)
EXTENDS Naturals, Sequences, FiniteSets, TLC

\* Longest dependency pin list a caller (or a lock file, or a payload) supplies.
MaxPins == 2

\* Most files a decoded payload embeds.
MaxFiles == 2

-----------------------------------------------------------------------------
(* Strings *)

\* Byte value of the characters the model's strings are made of.
Ascii ==
  ("\n" :> 10) @@ (" " :> 32) @@ ("#" :> 35) @@ ("-" :> 45) @@ ("." :> 46) @@
  ("/" :> 47) @@ ("1" :> 49) @@ ("2" :> 50) @@ (":" :> 58) @@ ("\\" :> 92) @@
  ("a" :> 97) @@ ("b" :> 98) @@ ("c" :> 99) @@ ("d" :> 100) @@ ("e" :> 101) @@
  ("f" :> 102) @@ ("i" :> 105) @@ ("j" :> 106) @@ ("l" :> 108) @@
  ("m" :> 109) @@ ("n" :> 110) @@ ("o" :> 111) @@ ("p" :> 112) @@
  ("r" :> 114) @@ ("s" :> 115) @@ ("t" :> 116) @@ ("u" :> 117) @@
  ("v" :> 118) @@ ("x" :> 120) @@ ("y" :> 121)

\* Go's string comparison a < b: bytewise lexicographic.
RECURSIVE StrLess(_, _)
StrLess(a, b) ==
  IF b = <<>> THEN FALSE
  ELSE IF a = <<>> THEN TRUE
  ELSE IF Ascii[Head(a)] < Ascii[Head(b)] THEN TRUE
  ELSE IF Ascii[Head(a)] > Ascii[Head(b)] THEN FALSE
  ELSE StrLess(Tail(a), Tail(b))

\* strings.HasSuffix
HasSuffix(s, suffix) ==
  /\ Len(suffix) <= Len(s)
  /\ SubSeq(s, Len(s) - Len(suffix) + 1, Len(s)) = suffix

\* strings.HasPrefix
HasPrefix(s, prefix) ==
  /\ Len(prefix) <= Len(s)
  /\ SubSeq(s, 1, Len(prefix)) = prefix

\* strings.Split(s, sep) for a one-character separator.
RECURSIVE Split(_, _)
Split(s, sep) ==
  IF \A i \in 1..Len(s) : s[i] # sep THEN <<s>>
  ELSE LET i == CHOOSE k \in 1..Len(s) :
                  /\ s[k] = sep
                  /\ \A j \in 1..(k - 1) : s[j] # sep
       IN <<SubSeq(s, 1, i - 1)>> \o Split(SubSeq(s, i + 1, Len(s)), sep)

\* Elements of a sequence.
Range(s) == {s[i] : i \in 1..Len(s)}

\* Sequences over S of length at most n.
SeqsUpTo(S, n) == UNION {[1..k -> S] : k \in 0..n}

-----------------------------------------------------------------------------
(* Errors: a record with a kind, a string argument and the kind of the     *)
(* error it wraps; kind "nil" is no error.                                 *)

Err(kind, arg) == [kind |-> kind, arg |-> arg, cause |-> "nil"]
NoErr == Err("nil", <<>>)

\* fmt.Errorf("...: %w", e): an error of the given kind wrapping e.
Wrap(kind, e) == [kind |-> kind, arg |-> e.arg, cause |-> e.kind]
IsErr(e) == e.kind # "nil"

\* storage.IsNotExist
IsNotExist(e) == e.kind = "NotExist"

-----------------------------------------------------------------------------
(* Paths *)

DotProto == <<".", "p", "r", "o", "t", "o">>

\* bufmodule.DocumentationFilePath: the reserved documentation file.
DocumentationFilePath == <<"b", "u", "f", ".", "m", "d">>

\* normalpath.Ext: the suffix beginning at the final dot of the final element
\* of the path, empty if that element has no dot.
Ext(path) ==
  LET dots == {i \in 1..Len(path) :
                 /\ path[i] = "."
                 /\ \A j \in i..Len(path) : path[j] # "/"}
  IN IF dots = {} THEN <<>>
     ELSE LET i == CHOOSE d \in dots : \A e \in dots : e <= d
          IN SubSeq(path, i, Len(path))

\* bufmodule.ValidateModuleFilePath: non-empty, relative, no parent-directory
\* segment, forward slashes only, and the source extension.
ValidateModuleFilePath(path) ==
  IF path = <<>> THEN Err("InvalidPath", path)
  ELSE IF Head(path) = "/" THEN Err("InvalidPath", path)
  ELSE IF <<".", ".">> \in Range(Split(path, "/")) THEN Err("InvalidPath", path)
  ELSE IF "\\" \in Range(path) THEN Err("InvalidPath", path)
  ELSE IF Ext(path) # DotProto THEN Err("InvalidPath", path)
  ELSE NoErr

-----------------------------------------------------------------------------
(* storage: a read bucket is a function from the paths it holds to their   *)
(* content.  A call's fault is the way the underlying store fails during   *)
(* that call: "none", "get" (Get fails with an I/O error), "read" (the     *)
(* reader fails while being read).                                         *)

NilReader == [nil |-> TRUE, path |-> <<>>, externalPath |-> <<>>, data |-> <<>>]

\* storage.ReadBucket.Get: a reader on the object, a not-found error if
\* the bucket does not hold the path, or the store's own error.
Get(bucket, path, fault) ==
  IF fault = "get" THEN [reader |-> NilReader, err |-> Err("IO", path)]
  ELSE IF path \notin DOMAIN bucket
    THEN [reader |-> NilReader, err |-> Err("NotExist", path)]
  ELSE [reader |-> [nil |-> FALSE, path |-> path, externalPath |-> path,
                    data |-> bucket[path]],
        err |-> NoErr]

\* io.ReadAll on a reader of the bucket.
ReadAll(reader, fault) ==
  IF fault = "read" THEN [data |-> <<>>, err |-> Err("IO", reader.path)]
  ELSE [data |-> reader.data, err |-> NoErr]

\* storage.MatchPathExt(ext).MapPath: whether the path has the extension.
MatchPathExt(ext, path) == Ext(path) = ext

\* storage.MapReadBucket with a MatchPathExt matcher: the view of the bucket
\* that holds the matching paths only.
MapReadBucket(bucket, ext) ==
  [p \in {q \in DOMAIN bucket : MatchPathExt(ext, q)} |-> bucket[p]]

\* The orders in which ReadBucket.Walk may present the objects of a bucket.
WalkOrders(bucket) ==
  {o \in [1..Cardinality(DOMAIN bucket) -> DOMAIN bucket] :
     \A i, j \in DOMAIN o : i # j => o[i] # o[j]}

\* storage.ObjectInfo of a bucket's object.
ObjectInfo(path) == [path |-> path, externalPath |-> path]

-----------------------------------------------------------------------------
(* Module identities and pins *)

NilModuleIdentity == [remote |-> <<>>, owner |-> <<>>, repository |-> <<>>]

ModuleIdentity(remote, owner, repository) ==
  [remote |-> remote, owner |-> owner, repository |-> repository]

\* ModuleIdentity.IdentityString: remote/owner/repository.
IdentityString(id) == id.remote \o <<"/">> \o id.owner \o <<"/">> \o id.repository

ModulePin(remote, owner, repository, commit) ==
  [remote |-> remote, owner |-> owner, repository |-> repository,
   commit |-> commit]

PinIdentity(pin) == ModuleIdentity(pin.remote, pin.owner, pin.repository)

\* The order SortModulePins sorts by: remote, then owner, then repository.
modulePinLess(a, b) ==
  IF a.remote # b.remote THEN StrLess(a.remote, b.remote)
  ELSE IF a.owner # b.owner THEN StrLess(a.owner, b.owner)
  ELSE StrLess(a.repository, b.repository)

\* One insertion of a stable insertion sort.
RECURSIVE insertModulePin(_, _)
insertModulePin(pin, sorted) ==
  IF sorted = <<>> THEN <<pin>>
  ELSE IF modulePinLess(pin, Head(sorted)) THEN <<pin>> \o sorted
  ELSE <<Head(sorted)>> \o insertModulePin(pin, Tail(sorted))

\* bufmodule.SortModulePins: the pins in the order of modulePinLess.
RECURSIVE SortModulePins(_)
SortModulePins(pins) ==
  IF pins = <<>> THEN <<>>
  ELSE insertModulePin(pins[Len(pins)], SortModulePins(SubSeq(pins, 1, Len(pins) - 1)))

\* bufmodule.ValidateModulePinsUniqueByIdentity: an error naming the first
\* identity that appears a second time.
ValidateModulePinsUniqueByIdentity(pins) ==
  LET repeats == {j \in 1..Len(pins) :
                    \E i \in 1..(j - 1) : PinIdentity(pins[i]) = PinIdentity(pins[j])}
  IN IF repeats = {} THEN NoErr
     ELSE LET j == CHOOSE r \in repeats : \A q \in repeats : r <= q
          IN Err("DuplicateDependency", IdentityString(PinIdentity(pins[j])))

-----------------------------------------------------------------------------
(* FileInfo *)

\* bufmodule.NewFileInfo: the descriptor of a file with a valid path.
NewFileInfo(path, externalPath, isImport, moduleIdentity, commit) ==
  IF IsErr(ValidateModuleFilePath(path))
    THEN [fileInfo |-> <<>>, err |-> ValidateModuleFilePath(path)]
  ELSE [fileInfo |-> <<[path |-> path, externalPath |-> externalPath,
                        isImport |-> isImport,
                        moduleIdentity |-> moduleIdentity,
                        commit |-> commit]>>,
        err |-> NoErr]

\* One insertion of the sort by path.
RECURSIVE insertFileInfo(_, _)
insertFileInfo(fileInfo, sorted) ==
  IF sorted = <<>> THEN <<fileInfo>>
  ELSE IF StrLess(fileInfo.path, Head(sorted).path) THEN <<fileInfo>> \o sorted
  ELSE <<Head(sorted)>> \o insertFileInfo(fileInfo, Tail(sorted))

\* bufmodule.sortFileInfos: the FileInfos in the order of their paths.
RECURSIVE sortFileInfos(_)
sortFileInfos(fileInfos) ==
  IF fileInfos = <<>> THEN <<>>
  ELSE insertFileInfo(fileInfos[Len(fileInfos)],
                      sortFileInfos(SubSeq(fileInfos, 1, Len(fileInfos) - 1)))

-----------------------------------------------------------------------------
(* The module.  A pin slice is a reference into the heap of backing arrays: *)
(* the module record holds the address, the heap holds the pins.            *)

NilModule ==
  [nil |-> TRUE, sourceReadBucket |-> <<>>, dependencyModulePins |-> "nil",
   moduleIdentity |-> NilModuleIdentity, commit |-> <<>>, documentation |-> <<>>]

\* ModuleWithModuleIdentity and ModuleWithModuleIdentityAndCommit.
ModuleWithModuleIdentity(moduleIdentity) ==
  [option |-> "ModuleWithModuleIdentity", moduleIdentity |-> moduleIdentity,
   commit |-> <<>>]

ModuleWithModuleIdentityAndCommit(moduleIdentity, commit) ==
  [option |-> "ModuleWithModuleIdentityAndCommit",
   moduleIdentity |-> moduleIdentity, commit |-> commit]

\* option(module): what a ModuleOption does to the module it is applied to.
applyModuleOption(option, m) ==
  IF option.option = "ModuleWithModuleIdentity"
    THEN [m EXCEPT !.moduleIdentity = option.moduleIdentity]
  ELSE [m EXCEPT !.moduleIdentity = option.moduleIdentity,
                 !.commit = option.commit]

\* for _, option := range options { option(module) }
RECURSIVE applyModuleOptions(_, _)
applyModuleOptions(options, m) ==
  IF options = <<>> THEN m
  ELSE applyModuleOptions(Tail(options), applyModuleOption(Head(options), m))

\* The documentation lookup with a missing file treated as any other error.
readDocumentationNotExistFatal(sourceReadBucket, fault) ==
  LET got == Get(sourceReadBucket, DocumentationFilePath, fault)
      read == ReadAll(got.reader, fault)
  IN IF IsErr(got.err)
       THEN [contents |-> <<>>, err |-> got.err, trace |-> <<"Get">>]
     ELSE IF IsErr(read.err)
       THEN [contents |-> <<>>, err |-> read.err, trace |-> <<"Get", "ReadAll">>]
     ELSE [contents |-> read.data, err |-> NoErr, trace |-> <<"Get", "ReadAll">>]

\* The documentation lookup of the core builder: the content of the reserved
\* documentation file, empty if the bucket has none.
readDocumentation(sourceReadBucket, fault) ==
  LET got == Get(sourceReadBucket, DocumentationFilePath, fault)
      read == ReadAll(got.reader, fault)
  IN IF IsErr(got.err) /\ ~IsNotExist(got.err)
       THEN [contents |-> <<>>, err |-> got.err, trace |-> <<"Get">>]
     ELSE IF got.reader.nil
       THEN [contents |-> <<>>, err |-> NoErr, trace |-> <<"Get">>]
     ELSE IF IsErr(read.err)
       THEN [contents |-> <<>>, err |-> read.err, trace |-> <<"Get", "ReadAll">>]
     ELSE [contents |-> read.data, err |-> NoErr, trace |-> <<"Get", "ReadAll">>]

\* The pin list kept in the order the caller gave.
sortedDependencyModulePinsUnsorted(dependencyModulePins) == dependencyModulePins

\* The pin list the module keeps: the argument, sorted in place.
sortedDependencyModulePins(dependencyModulePins) ==
  SortModulePins(dependencyModulePins)

\* The source bucket kept as it is, with no filter.
filteredSourceReadBucketUnfiltered(sourceReadBucket) == sourceReadBucket

\* The bucket the module keeps: the source bucket behind the extension filter.
filteredSourceReadBucket(sourceReadBucket) ==
  MapReadBucket(sourceReadBucket, DotProto)

\* A construction that failed: no module, the heap as it was.
constructionFailed(heap, err, trace) ==
  [module |-> NilModule, err |-> err, heap |-> heap, trace |-> trace]

\* The core builder with the documentation lookup ahead of the pin validation.
newModuleForBucketWithDependencyModulePinsLookupFirst(heap, sourceReadBucket, dependencyModulePins, options, fault) ==
  LET unique == ValidateModulePinsUniqueByIdentity(heap[dependencyModulePins])
      doc == readDocumentation(sourceReadBucket, fault)
  IN IF IsErr(doc.err)
       THEN constructionFailed(heap, doc.err, doc.trace)
     ELSE IF IsErr(unique)
       THEN constructionFailed(heap, unique,
              doc.trace \o <<"ValidateModulePinsUniqueByIdentity">>)
     ELSE [module |->
             applyModuleOptions(options,
               [nil |-> FALSE,
                sourceReadBucket |-> filteredSourceReadBucket(sourceReadBucket),
                dependencyModulePins |-> dependencyModulePins,
                moduleIdentity |-> NilModuleIdentity,
                commit |-> <<>>,
                documentation |-> doc.contents]),
           err |-> NoErr,
           heap |-> [heap EXCEPT ![dependencyModulePins] =
                       sortedDependencyModulePins(heap[dependencyModulePins])],
           trace |-> doc.trace \o <<"ValidateModulePinsUniqueByIdentity",
                                    "SortModulePins", "MapReadBucket", "options">>]

\* newModuleForBucketWithDependencyModulePins: the core builder.  The pin
\* slice is the caller's: it is validated, sorted in place in the heap, and
\* kept by reference.
newModuleForBucketWithDependencyModulePins(heap, sourceReadBucket, dependencyModulePins, options, fault) ==
  LET unique == ValidateModulePinsUniqueByIdentity(heap[dependencyModulePins])
      doc == readDocumentation(sourceReadBucket, fault)
  IN IF IsErr(unique)
       THEN constructionFailed(heap, unique, <<"ValidateModulePinsUniqueByIdentity">>)
     ELSE IF IsErr(doc.err)
       THEN constructionFailed(heap, doc.err,
              <<"ValidateModulePinsUniqueByIdentity">> \o doc.trace)
     ELSE [module |->
             applyModuleOptions(options,
               [nil |-> FALSE,
                sourceReadBucket |-> filteredSourceReadBucket(sourceReadBucket),
                dependencyModulePins |-> dependencyModulePins,
                moduleIdentity |-> NilModuleIdentity,
                commit |-> <<>>,
                documentation |-> doc.contents]),
           err |-> NoErr,
           heap |-> [heap EXCEPT ![dependencyModulePins] =
                       sortedDependencyModulePins(heap[dependencyModulePins])],
           trace |-> <<"ValidateModulePinsUniqueByIdentity">> \o doc.trace \o
                     <<"SortModulePins", "MapReadBucket", "options">>]

-----------------------------------------------------------------------------
(* The other two constructors *)

\* getDependencyModulePinsForBucket: the pin list of the bucket's dependency
\* lock, in a slice of its own, or the lock reader's error.
getDependencyModulePinsForBucket(lockPins, fault) ==
  IF fault = "lock" THEN [pins |-> <<>>, err |-> Err("IO", <<>>)]
  ELSE [pins |-> lockPins, err |-> NoErr]

\* newModuleForBucket: the pins are those of the bucket's dependency lock.
newModuleForBucket(heap, sourceReadBucket, lockPins, options, fault) ==
  LET got == getDependencyModulePinsForBucket(lockPins, fault)
  IN IF IsErr(got.err) THEN constructionFailed(heap, got.err, <<>>)
     ELSE newModuleForBucketWithDependencyModulePins(
            heap @@ ("lock" :> got.pins), sourceReadBucket, "lock", options, fault)

\* ValidateProtoModule: every embedded file has a valid path and no path
\* appears twice.
ValidateProtoModule(protoModule) ==
  LET files == protoModule.files
      bad == {i \in 1..Len(files) : IsErr(ValidateModuleFilePath(files[i].path))}
      twice == {j \in 1..Len(files) :
                  \E i \in 1..(j - 1) : files[i].path = files[j].path}
  IN IF bad # {}
       THEN ValidateModuleFilePath(files[CHOOSE i \in bad : \A k \in bad : i <= k].path)
     ELSE IF twice # {}
       THEN Err("DuplicatePath",
                files[CHOOSE j \in twice : \A k \in twice : j <= k].path)
     ELSE NoErr

\* NewModulePinsForProtos: the pins of the serialized dependencies; a
\* dependency with a missing field is malformed.
NewModulePinsForProtos(dependencies) ==
  LET bad == {i \in 1..Len(dependencies) :
                \/ dependencies[i].remote = <<>>
                \/ dependencies[i].owner = <<>>
                \/ dependencies[i].repository = <<>>
                \/ dependencies[i].commit = <<>>}
  IN IF bad # {} THEN [pins |-> <<>>, err |-> Err("MalformedDependency", <<>>)]
     ELSE [pins |-> dependencies, err |-> NoErr]

\* storage.PutPath of each embedded file into the in-memory bucket under
\* construction; the first put that fails ends the loop with its error.
RECURSIVE putProtoFiles(_, _, _)
putProtoFiles(files, bucket, fault) ==
  IF files = <<>> THEN [bucket |-> bucket, err |-> NoErr]
  ELSE IF fault = "put" THEN [bucket |-> <<>>, err |-> Err("IO", Head(files).path)]
  ELSE putProtoFiles(Tail(files),
         (Head(files).path :> Head(files).content) @@ bucket, fault)

\* The bucket of a payload: its files, its documentation under the reserved
\* path if it has any, then ToReadBucket; each of the three can fail.
protoSourceReadBucket(protoModule, fault) ==
  LET withFiles == putProtoFiles(protoModule.files, <<>>, fault)
  IN IF IsErr(withFiles.err) THEN withFiles
     ELSE IF protoModule.documentation # <<>> /\ fault = "putdoc"
       THEN [bucket |-> <<>>, err |-> Err("IO", DocumentationFilePath)]
     ELSE IF fault = "toread" THEN [bucket |-> <<>>, err |-> Err("IO", <<>>)]
     ELSE IF protoModule.documentation # <<>>
       THEN [bucket |-> (DocumentationFilePath :> protoModule.documentation)
                        @@ withFiles.bucket,
             err |-> NoErr]
     ELSE withFiles

\* newModuleForProto: the module of a decoded payload.
newModuleForProto(heap, protoModule, options, fault) ==
  LET valid == ValidateProtoModule(protoModule)
      sourceReadBucket == protoSourceReadBucket(protoModule, fault)
      pins == NewModulePinsForProtos(protoModule.dependencies)
  IN IF IsErr(valid) THEN constructionFailed(heap, valid, <<>>)
     ELSE IF IsErr(sourceReadBucket.err)
       THEN constructionFailed(heap, sourceReadBucket.err, <<>>)
     ELSE IF IsErr(pins.err) THEN constructionFailed(heap, pins.err, <<>>)
     ELSE newModuleForBucketWithDependencyModulePins(
            heap @@ ("proto" :> pins.pins), sourceReadBucket.bucket,
            "proto", options, fault)

-----------------------------------------------------------------------------
(* The operations of a constructed module.  A walk is the order in which   *)
(* the bucket presents its objects and, if the store fails during the      *)
(* walk, the number of objects presented before it does.                   *)

\* The callback of SourceFileInfos on the objects from position i on, with
\* the FileInfos collected so far.
RECURSIVE walkFileInfos(_, _, _, _)
walkFileInfos(m, walk, i, fileInfos) ==
  IF walk.fault = "walk" /\ walk.after = i - 1
    THEN [fileInfos |-> fileInfos, err |-> Err("IO", <<>>)]
  ELSE IF i > Len(walk.order) THEN [fileInfos |-> fileInfos, err |-> NoErr]
  ELSE LET objectInfo == ObjectInfo(walk.order[i])
           valid == ValidateModuleFilePath(objectInfo.path)
           new == NewFileInfo(objectInfo.path, objectInfo.externalPath, FALSE,
                              m.moduleIdentity, m.commit)
       IN IF IsErr(valid) THEN [fileInfos |-> fileInfos, err |-> valid]
          ELSE IF IsErr(new.err) THEN [fileInfos |-> fileInfos, err |-> new.err]
          ELSE walkFileInfos(m, walk, i + 1, fileInfos \o new.fileInfo)

\* The number of FileInfos the callback had collected when the walk ended.
walkCollected(m, walk) == Len(walkFileInfos(m, walk, 1, <<>>).fileInfos)

\* SourceFileInfos returning what the walk collected before it failed.
SourceFileInfosPartial(m, walk) ==
  LET walked == walkFileInfos(m, walk, 1, <<>>)
  IN IF IsErr(walked.err)
       THEN [fileInfos |-> sortFileInfos(walked.fileInfos),
             err |-> Wrap("EnumerationFailure", walked.err)]
     ELSE [fileInfos |-> sortFileInfos(walked.fileInfos), err |-> NoErr]

\* module.SourceFileInfos
SourceFileInfos(m, walk) ==
  LET walked == walkFileInfos(m, walk, 1, <<>>)
  IN IF IsErr(walked.err)
       THEN [fileInfos |-> <<>>, err |-> Wrap("EnumerationFailure", walked.err)]
     ELSE [fileInfos |-> sortFileInfos(walked.fileInfos), err |-> NoErr]

\* module.TargetFileInfos
TargetFileInfos(m, walk) == SourceFileInfos(m, walk)

NilModuleFile == [nil |-> TRUE, fileInfo |-> <<>>, data |-> <<>>]

\* module.GetModuleFile
GetModuleFile(m, path, fault) ==
  LET valid == ValidateModuleFilePath(path)
      got == Get(m.sourceReadBucket, path, fault)
      new == NewFileInfo(got.reader.path, got.reader.externalPath, FALSE,
                         m.moduleIdentity, m.commit)
  IN IF IsErr(valid) THEN [moduleFile |-> NilModuleFile, err |-> valid]
     ELSE IF IsErr(got.err) THEN [moduleFile |-> NilModuleFile, err |-> got.err]
     ELSE IF IsErr(new.err) THEN [moduleFile |-> NilModuleFile, err |-> new.err]
     ELSE [moduleFile |-> [nil |-> FALSE, fileInfo |-> new.fileInfo,
                           data |-> got.reader.data],
           err |-> NoErr]

\* module.DependencyModulePins: the module's own slice, not a copy.
DependencyModulePins(m) == m.dependencyModulePins

\* module.Documentation
Documentation(m) == m.documentation

\* module.getSourceReadBucket
getSourceReadBucket(m) == m.sourceReadBucket

\* module.getModuleIdentity
getModuleIdentity(m) == m.moduleIdentity

\* module.getCommit
getCommit(m) == m.commit

-----------------------------------------------------------------------------
(* bufconfig: constants, the Config, and the decoding of configuration text *)

\* ExternalConfigFilePath = "buf.mod"
ExternalConfigFilePath == <<"b", "u", "f", ".", "m", "o", "d">>

\* A file that is no configuration file: "buf.lock".
LockFilePath == <<"b", "u", "f", ".", "l", "o", "c", "k">>

\* The legacy path taken to be that of the lock file.
ExternalConfigV1Beta1FilePathWrong == LockFilePath

\* ExternalConfigV1Beta1FilePath = "buf.yaml"
ExternalConfigV1Beta1FilePath == <<"b", "u", "f", ".", "y", "a", "m", "l">>

\* V1Version = "v1"
V1Version == <<"v", "1">>

\* V1Beta1Version = "v1beta1"
V1Beta1Version == <<"v", "1", "b", "e", "t", "a", "1">>

\* The versions with one more, "v2".
AllVersionsAndV2 == <<V1Beta1Version, V1Version, <<"v", "2">> >>

\* AllVersions: all the versions in order.
AllVersions == <<V1Beta1Version, V1Version>>

\* The Config struct; Build carries the dependency references, and the
\* build, breaking and lint blocks are passed through undecoded.
Config(version, moduleIdentity, deps, build, breaking, lint) ==
  [Version |-> version, ModuleIdentity |-> moduleIdentity,
   Build |-> [DependencyModuleReferences |-> deps, external |-> build],
   Breaking |-> breaking, Lint |-> lint]

\* The version of a configuration that states none.
DefaultVersion == V1Version

\* The default Config: the default version, no identity, default sub-configs.
DefaultConfig == Config(DefaultVersion, NilModuleIdentity, <<>>, <<>>, <<>>, <<>>)

KeyVersion == <<"v", "e", "r", "s", "i", "o", "n">>
KeyName == <<"n", "a", "m", "e">>
KeyDeps == <<"d", "e", "p", "s">>
KeyBuild == <<"b", "u", "i", "l", "d">>
KeyBreaking == <<"b", "r", "e", "a", "k", "i", "n", "g">>
KeyLint == <<"l", "i", "n", "t">>

\* The keys of ExternalConfigV1Beta1 and ExternalConfigV1.
ExternalConfigKeys == {KeyVersion, KeyName, KeyDeps, KeyBuild, KeyBreaking, KeyLint}

\* One line of configuration text: a comment or blank line, a "key: value"
\* field, a "key:" list header, a "  - value" list item, or none of these.
parseLine(line) ==
  IF line = <<>> \/ Head(line) = "#"
    THEN [kind |-> "skip", key |-> <<>>, value |-> <<>>]
  ELSE IF HasPrefix(line, <<" ", " ", "-", " ">>)
    THEN [kind |-> "item", key |-> <<>>, value |-> SubSeq(line, 5, Len(line))]
  ELSE IF ":" \notin Range(line) \/ Head(line) = " "
    THEN [kind |-> "bad", key |-> <<>>, value |-> <<>>]
  ELSE LET i == CHOOSE k \in 1..Len(line) :
                  line[k] = ":" /\ \A j \in 1..(k - 1) : line[j] # ":"
           rest == SubSeq(line, i + 1, Len(line))
       IN IF rest = <<>>
            THEN [kind |-> "list", key |-> SubSeq(line, 1, i - 1), value |-> <<>>]
          ELSE IF Head(rest) = " "
            THEN [kind |-> "field", key |-> SubSeq(line, 1, i - 1),
                  value |-> Tail(rest)]
          ELSE [kind |-> "bad", key |-> <<>>, value |-> <<>>]

\* The fields of the lines, in order; a line that is no YAML, or an item
\* outside a list, is a decode error.
RECURSIVE parseLines(_, _)
parseLines(lines, fields) ==
  IF lines = <<>> THEN [fields |-> fields, err |-> NoErr]
  ELSE LET line == parseLine(Head(lines))
       IN CASE line.kind = "skip" -> parseLines(Tail(lines), fields)
            [] line.kind = "field" ->
                 parseLines(Tail(lines),
                   Append(fields, [key |-> line.key, value |-> line.value,
                                   list |-> FALSE, items |-> <<>>]))
            [] line.kind = "list" ->
                 parseLines(Tail(lines),
                   Append(fields, [key |-> line.key, value |-> <<>>,
                                   list |-> TRUE, items |-> <<>>]))
            [] line.kind = "item" ->
                 IF fields = <<>> \/ ~fields[Len(fields)].list
                   THEN [fields |-> <<>>, err |-> Err("ConfigParseError", Head(lines))]
                 ELSE parseLines(Tail(lines),
                        [fields EXCEPT ![Len(fields)].items =
                           Append(@, line.value)])
            [] OTHER -> [fields |-> <<>>, err |-> Err("ConfigParseError", Head(lines))]

\* The YAML document of the data.
unmarshalYAML(data) == parseLines(Split(data, "\n"), <<>>)

\* The value of a key in the fields, empty if it is not set.
fieldValue(fields, key) ==
  LET at == {i \in 1..Len(fields) : fields[i].key = key}
  IN IF at = {} THEN <<>> ELSE fields[CHOOSE i \in at : \A j \in at : j <= i].value

fieldItems(fields, key) ==
  LET at == {i \in 1..Len(fields) : fields[i].key = key}
  IN IF at = {} THEN <<>> ELSE fields[CHOOSE i \in at : \A j \in at : j <= i].items

\* bufmodule.ModuleIdentityForString: remote/owner/repository.
ModuleIdentityForString(s) ==
  LET parts == Split(s, "/")
  IN IF Len(parts) # 3 \/ <<>> \in Range(parts)
       THEN [moduleIdentity |-> NilModuleIdentity, err |-> Err("ConfigParseError", s)]
     ELSE [moduleIdentity |-> ModuleIdentity(parts[1], parts[2], parts[3]),
           err |-> NoErr]

\* bufmodule.ModuleReference: an identity and a reference.
ModuleReference(remote, owner, repository, reference) ==
  [remote |-> remote, owner |-> owner, repository |-> repository,
   reference |-> reference]

\* bufmodule.ModuleReferenceForString: remote/owner/repository, on the
\* default reference.
ModuleReferenceForString(s) ==
  LET id == ModuleIdentityForString(s)
  IN [moduleReference |->
        ModuleReference(id.moduleIdentity.remote, id.moduleIdentity.owner,
                        id.moduleIdentity.repository, <<>>),
      err |-> id.err]

\* ModuleReference.String
ModuleReferenceString(ref) ==
  ref.remote \o <<"/">> \o ref.owner \o <<"/">> \o ref.repository

\* The full decode of a recognized version: strict in the keys, the name
\* into an identity, each dependency into a reference, the build, breaking
\* and lint blocks passed through.
newConfigForVersion(version, fields) ==
  LET unknown == {i \in 1..Len(fields) : fields[i].key \notin ExternalConfigKeys}
      name == fieldValue(fields, KeyName)
      id == IF name = <<>> THEN [moduleIdentity |-> NilModuleIdentity, err |-> NoErr]
            ELSE ModuleIdentityForString(name)
      deps == fieldItems(fields, KeyDeps)
      badDeps == {i \in 1..Len(deps) : IsErr(ModuleReferenceForString(deps[i]).err)}
  IN IF unknown # {}
       THEN [config |-> <<>>,
             err |-> Err("ConfigParseError", fields[CHOOSE i \in unknown : TRUE].key)]
     ELSE IF IsErr(id.err)
       THEN [config |-> <<>>, err |-> id.err]
     ELSE IF badDeps # {}
       THEN [config |-> <<>>,
             err |-> Err("ConfigParseError", deps[CHOOSE i \in badDeps : TRUE])]
     ELSE [config |->
             <<Config(version, id.moduleIdentity,
                      [i \in 1..Len(deps) |->
                         ModuleReferenceForString(deps[i]).moduleReference],
                      fieldValue(fields, KeyBuild),
                      fieldValue(fields, KeyBreaking),
                      fieldValue(fields, KeyLint))>>,
           err |-> NoErr]

\* Provider.GetConfigForData: the default Config for data of length 0;
\* otherwise the version field decides, by exact match against AllVersions.
GetConfigForData(data) ==
  LET doc == unmarshalYAML(data)
      version == fieldValue(doc.fields, KeyVersion)
  IN IF Len(data) = 0 THEN [config |-> <<DefaultConfig>>, err |-> NoErr]
     ELSE IF IsErr(doc.err) THEN [config |-> <<>>, err |-> doc.err]
     ELSE IF version \notin Range(AllVersions)
       THEN [config |-> <<>>, err |-> Err("UnsupportedVersion", version)]
     ELSE newConfigForVersion(version, doc.fields)

\* storage.ReadBucket.Get and io.ReadAll of a path, with the paths on which
\* the store fails during this call.
readPath(readBucket, path, failing) ==
  IF path \in failing THEN [data |-> <<>>, err |-> Err("IO", path)]
  ELSE IF path \notin DOMAIN readBucket
    THEN [data |-> <<>>, err |-> Err("NotExist", path)]
  ELSE [data |-> readBucket[path], err |-> NoErr]

\* Provider.GetConfig: the configuration at the canonical path, at the legacy
\* path if there is none, the default if there is neither.
GetConfig(readBucket, failing) ==
  LET canonical == readPath(readBucket, ExternalConfigFilePath, failing)
      legacy == readPath(readBucket, ExternalConfigV1Beta1FilePath, failing)
  IN IF ~IsErr(canonical.err) THEN GetConfigForData(canonical.data)
     ELSE IF ~IsNotExist(canonical.err) THEN [config |-> <<>>, err |-> canonical.err]
     ELSE IF ~IsErr(legacy.err) THEN GetConfigForData(legacy.data)
     ELSE IF ~IsNotExist(legacy.err) THEN [config |-> <<>>, err |-> legacy.err]
     ELSE [config |-> <<DefaultConfig>>, err |-> NoErr]

-----------------------------------------------------------------------------
(* bufconfig: ReadConfig, WriteConfig, ConfigExists *)

\* readConfigOptions, before any option.
newReadConfigOptions == [override |-> <<>>]

\* ReadConfigWithOverride
ReadConfigWithOverride(override, readConfigOptions) ==
  [readConfigOptions EXCEPT !.override = override]

RECURSIVE applyReadConfigOptions(_, _)
applyReadConfigOptions(options, readConfigOptions) ==
  IF options = <<>> THEN readConfigOptions
  ELSE applyReadConfigOptions(Tail(options),
         ReadConfigWithOverride(Head(options).override, readConfigOptions))

\* ReadConfig: an override that ends in .json or .yaml is a file to read,
\* any other override is the configuration itself; with no override the
\* configuration is the bucket's.  file is what reading the override as a
\* file yields.
ReadConfig(readBucket, options, file, failing) ==
  LET override == applyReadConfigOptions(options, newReadConfigOptions).override
  IN IF override = <<>> THEN GetConfig(readBucket, failing)
     ELSE IF \/ HasSuffix(override, <<".", "j", "s", "o", "n">>)
             \/ HasSuffix(override, <<".", "y", "a", "m", "l">>)
       THEN IF IsErr(file.err) THEN [config |-> <<>>, err |-> file.err]
            ELSE GetConfigForData(file.data)
     ELSE GetConfigForData(override)

\* writeConfigOptions, before any option.
newWriteConfigOptions ==
  [moduleIdentity |-> NilModuleIdentity, dependencyModuleReferences |-> <<>>,
   documentationComments |-> FALSE, uncomment |-> FALSE]

\* WriteConfigWithModuleIdentity
WriteConfigWithModuleIdentity(moduleIdentity, writeConfigOptions) ==
  [writeConfigOptions EXCEPT !.moduleIdentity = moduleIdentity]

\* The option with the references dropped.
WriteConfigWithDependencyModuleReferencesDropped(dependencyModuleReferences, writeConfigOptions) ==
  writeConfigOptions

\* WriteConfigWithDependencyModuleReferences
WriteConfigWithDependencyModuleReferences(dependencyModuleReferences, writeConfigOptions) ==
  [writeConfigOptions EXCEPT !.dependencyModuleReferences = dependencyModuleReferences]

\* WriteConfigWithDocumentationComments
WriteConfigWithDocumentationComments(writeConfigOptions) ==
  [writeConfigOptions EXCEPT !.documentationComments = TRUE]

\* WriteConfigWithUncomment
WriteConfigWithUncomment(writeConfigOptions) ==
  [writeConfigOptions EXCEPT !.uncomment = TRUE]

\* A WriteConfigOption applied to the options.
applyWriteConfigOption(option, writeConfigOptions) ==
  CASE option.option = "WriteConfigWithModuleIdentity" ->
         WriteConfigWithModuleIdentity(option.moduleIdentity, writeConfigOptions)
    [] option.option = "WriteConfigWithDependencyModuleReferences" ->
         WriteConfigWithDependencyModuleReferences(
           option.dependencyModuleReferences, writeConfigOptions)
    [] option.option = "WriteConfigWithDocumentationComments" ->
         WriteConfigWithDocumentationComments(writeConfigOptions)
    [] OTHER -> WriteConfigWithUncomment(writeConfigOptions)

RECURSIVE applyWriteConfigOptions(_, _)
applyWriteConfigOptions(options, writeConfigOptions) ==
  IF options = <<>> THEN writeConfigOptions
  ELSE applyWriteConfigOptions(Tail(options),
         applyWriteConfigOption(Head(options), writeConfigOptions))

\* The check of the options: references need an identity, uncomment needs
\* the documentation comments.
validateWriteConfigOptions(writeConfigOptions) ==
  IF /\ writeConfigOptions.moduleIdentity = NilModuleIdentity
     /\ Len(writeConfigOptions.dependencyModuleReferences) > 0
    THEN Err("OptionConflict", KeyDeps)
  ELSE IF ~writeConfigOptions.documentationComments /\ writeConfigOptions.uncomment
    THEN Err("OptionConflict", <<>>)
  ELSE NoErr

Line(key, value) == key \o <<":", " ">> \o value \o <<"\n">>

RECURSIVE depLines(_)
depLines(refs) ==
  IF refs = <<>> THEN <<>>
  ELSE <<" ", " ", "-", " ">> \o ModuleReferenceString(Head(refs)) \o <<"\n">>
       \o depLines(Tail(refs))

\* The text of the configuration file for the options.
renderConfig(writeConfigOptions) ==
  (IF writeConfigOptions.documentationComments
     THEN <<"#", " ">> \o KeyVersion \o <<"\n">> ELSE <<>>)
  \o Line(KeyVersion, DefaultVersion)
  \o (IF writeConfigOptions.moduleIdentity # NilModuleIdentity
        THEN Line(KeyName, IdentityString(writeConfigOptions.moduleIdentity))
      ELSE <<>>)
  \o (IF writeConfigOptions.dependencyModuleReferences # <<>>
        THEN KeyDeps \o <<":", "\n">>
             \o depLines(writeConfigOptions.dependencyModuleReferences)
      ELSE <<>>)
  \o (IF ~writeConfigOptions.documentationComments THEN <<>>
      ELSE IF writeConfigOptions.uncomment THEN Line(KeyLint, <<"d">>)
      ELSE <<"#", " ">> \o Line(KeyLint, <<"d">>))

\* WriteConfig: the options are applied and checked, then the file is put
\* at the canonical path; put is whether the bucket accepts the write.
WriteConfig(writeBucket, options, put) ==
  LET writeConfigOptions == applyWriteConfigOptions(options, newWriteConfigOptions)
      valid == validateWriteConfigOptions(writeConfigOptions)
  IN IF IsErr(valid) THEN [bucket |-> writeBucket, err |-> valid, puts |-> <<>>]
     ELSE IF ~put
       THEN [bucket |-> writeBucket, err |-> Err("IO", ExternalConfigFilePath),
             puts |-> <<ExternalConfigFilePath>>]
     ELSE [bucket |-> (ExternalConfigFilePath :> renderConfig(writeConfigOptions))
                      @@ writeBucket,
           err |-> NoErr, puts |-> <<ExternalConfigFilePath>>]

\* storage.Exists: whether the bucket holds the path; an error of the store
\* other than not-found is returned.
Exists(readBucket, path, failing) ==
  IF path \in failing THEN [exists |-> FALSE, err |-> Err("IO", path)]
  ELSE [exists |-> path \in DOMAIN readBucket, err |-> NoErr]

\* ConfigExists probing the legacy path first.
ConfigExistsLegacyFirst(readBucket, failing) ==
  LET canonical == Exists(readBucket, ExternalConfigFilePath, failing)
      legacy == Exists(readBucket, ExternalConfigV1Beta1FilePath, failing)
  IN IF IsErr(legacy.err)
       THEN [exists |-> FALSE, err |-> legacy.err,
             probes |-> <<ExternalConfigV1Beta1FilePath>>]
     ELSE IF legacy.exists
       THEN [exists |-> TRUE, err |-> NoErr,
             probes |-> <<ExternalConfigV1Beta1FilePath>>]
     ELSE [exists |-> canonical.exists, err |-> canonical.err,
           probes |-> <<ExternalConfigV1Beta1FilePath, ExternalConfigFilePath>>]

\* ConfigExists, with the paths it probed, in order.
ConfigExists(readBucket, failing) ==
  LET canonical == Exists(readBucket, ExternalConfigFilePath, failing)
      legacy == Exists(readBucket, ExternalConfigV1Beta1FilePath, failing)
  IN IF IsErr(canonical.err)
       THEN [exists |-> FALSE, err |-> canonical.err,
             probes |-> <<ExternalConfigFilePath>>]
     ELSE IF canonical.exists
       THEN [exists |-> TRUE, err |-> NoErr, probes |-> <<ExternalConfigFilePath>>]
     ELSE [exists |-> legacy.exists, err |-> legacy.err,
           probes |-> <<ExternalConfigFilePath, ExternalConfigV1Beta1FilePath>>]

-----------------------------------------------------------------------------
(* The inputs the model explores *)

PathA == <<"a", ".", "p", "r", "o", "t", "o">>
PathB == <<"b", ".", "p", "r", "o", "t", "o">>
PathText == <<"c", ".", "t", "x", "t">>
PathParent == <<".", ".", "/", "d", ".", "p", "r", "o", "t", "o">>

\* The paths a source bucket may hold: two source files, the documentation
\* file, a file of another kind, and a source file outside the module root.
Paths == {PathA, PathB, DocumentationFilePath, PathText, PathParent}

SourceContent == <<"s">>
DocContents == {<<>>, <<"d", "o", "c">>}

\* The source buckets: any set of the paths, with either documentation.
Buckets ==
  UNION {
    {[p \in S |-> IF p = DocumentationFilePath THEN doc ELSE SourceContent] :
       doc \in IF DocumentationFilePath \in S THEN DocContents ELSE {<<>>}} :
    S \in SUBSET Paths}

ModuleIdentities ==
  {ModuleIdentity(<<"a">>, <<"a">>, <<"a">>), ModuleIdentity(<<"a">>, <<"a">>, <<"b">>),
   ModuleIdentity(<<"a">>, <<"b">>, <<"a">>), ModuleIdentity(<<"b">>, <<"a">>, <<"a">>)}

\* One pin per identity, and a second commit of one of them.
ModulePins ==
  {ModulePin(id.remote, id.owner, id.repository, <<"1">>) : id \in ModuleIdentities}
  \cup {ModulePin(<<"a">>, <<"a">>, <<"b">>, <<"2">>)}

PinLists == SeqsUpTo(ModulePins, MaxPins)

\* Three pin lists: none, two commits of one identity, two identities out of
\* order.
FewPinLists ==
  {<<>>,
   <<ModulePin(<<"a">>, <<"a">>, <<"b">>, <<"1">>),
     ModulePin(<<"a">>, <<"a">>, <<"b">>, <<"2">>)>>,
   <<ModulePin(<<"b">>, <<"a">>, <<"a">>, <<"1">>),
     ModulePin(<<"a">>, <<"b">>, <<"a">>, <<"1">>)>>}

\* Three buckets: none of the paths, a source file with documentation, a
\* source file with a file of another kind.
FewBuckets ==
  {b \in Buckets :
     \/ DOMAIN b = {}
     \/ DOMAIN b = {PathA, DocumentationFilePath} /\ b[DocumentationFilePath] # <<>>
     \/ DOMAIN b = {PathA, PathText}}

\* What a constructor is given: every bucket with a few pin lists, and every
\* pin list with a few buckets.
BucketsAndPins ==
  (Buckets \X FewPinLists) \cup (FewBuckets \X PinLists)

\* The pin a holder of a module's pin slice writes into it.
WrittenPins == {ModulePin(<<"a">>, <<"a">>, <<"b">>, <<"2">>)}

\* A serialized dependency without its commit.
MalformedPin == ModulePin(<<"a">>, <<"a">>, <<"a">>, <<>>)

ProtoFile(path) == [path |-> path, content |-> SourceContent]

\* The payloads: every file list with a few dependency lists, and every
\* dependency list with a few file lists.
ProtoModules ==
  {[files |-> files, documentation |-> doc, dependencies |-> deps] :
     files \in SeqsUpTo({ProtoFile(p) : p \in {PathA, PathB, PathParent}}, MaxFiles),
     doc \in DocContents,
     deps \in FewPinLists \cup {<<MalformedPin>>}}
  \cup
  {[files |-> files, documentation |-> <<>>, dependencies |-> deps] :
     files \in {<<>>, <<ProtoFile(PathA)>>},
     deps \in SeqsUpTo(ModulePins \cup {MalformedPin}, MaxPins)}

NoProtoModule == [files |-> <<>>, documentation |-> <<>>, dependencies |-> <<>>]

OptionLists ==
  {<<>>,
   <<ModuleWithModuleIdentityAndCommit(
       ModuleIdentity(<<"a">>, <<"a">>, <<"a">>), <<"1">>)>>,
   <<ModuleWithModuleIdentityAndCommit(
       ModuleIdentity(<<"a">>, <<"a">>, <<"a">>), <<"1">>),
     ModuleWithModuleIdentity(ModuleIdentity(<<"b">>, <<"a">>, <<"a">>))>>}

\* The walks of a bucket: an order of its objects and where the store fails.
Walks(bucket) ==
  {[order |-> o, fault |-> "none", after |-> 0] : o \in WalkOrders(bucket)}
  \cup {[order |-> o, fault |-> "walk", after |-> k] :
          o \in WalkOrders(bucket), k \in 0..Cardinality(DOMAIN bucket)}

\* Configuration text: a version line, or none, and the rest.
ConfigData(version, body) ==
  (IF version = <<>> THEN <<>> ELSE Line(KeyVersion, version)) \o body

\* The versions a configuration states: the two of AllVersions, "v2", "V1",
\* "v10", and none.
ConfigVersions ==
  {V1Beta1Version, V1Version, <<"v", "2">>, <<"V", "1">>, <<"v", "1", "0">>, <<>>}

ConfigIdentity == ModuleIdentity(<<"a">>, <<"a">>, <<"a">>)

ConfigReference == ModuleReference(<<"a">>, <<"a">>, <<"b">>, <<>>)

\* What follows the version line: nothing, a name, a name with a part
\* missing, a key of no version, a line that is no YAML, dependencies, a
\* dependency with a part missing, a comment.
ConfigBodies ==
  {<<>>,
   Line(KeyName, IdentityString(ConfigIdentity)),
   Line(KeyName, <<"a", "/", "a">>),
   Line(<<"f">>, <<"x">>),
   <<"x", "\n">>,
   Line(KeyName, IdentityString(ConfigIdentity))
     \o KeyDeps \o <<":", "\n">> \o depLines(<<ConfigReference>>),
   KeyDeps \o <<":", "\n">> \o <<" ", " ", "-", " ", "a", "/", "b", "\n">>,
   <<"#", " ", "x", "\n">>}

ConfigTexts == {ConfigData(version, body) : version \in ConfigVersions, body \in ConfigBodies}

\* The texts the files of a bucket hold at the start.
FewConfigTexts ==
  {<<>>,
   ConfigData(V1Version, <<>>),
   ConfigData(V1Beta1Version, Line(KeyName, IdentityString(ConfigIdentity))),
   ConfigData(<<"v", "2">>, <<>>),
   ConfigData(V1Version, <<"x", "\n">>)}

ConfigPaths ==
  {ExternalConfigFilePath, ExternalConfigV1Beta1FilePath, LockFilePath}

\* The texts the legacy file holds at the start.
LegacyConfigTexts ==
  {<<>>, ConfigData(V1Beta1Version, Line(KeyName, IdentityString(ConfigIdentity)))}

\* The buckets at the start: any of the canonical file, the legacy file and
\* a third file, each with one of its texts.
ConfigBuckets ==
  UNION {{canonical @@ legacy @@ other :
            canonical \in [paths \cap {ExternalConfigFilePath} -> FewConfigTexts],
            legacy \in [paths \cap {ExternalConfigV1Beta1FilePath} -> LegacyConfigTexts],
            other \in [paths \cap {LockFilePath} ->
                         {ConfigData(V1Version, <<>>)}]} :
         paths \in SUBSET ConfigPaths}

\* The paths on which the store fails during a call.
Failings == SUBSET {ExternalConfigFilePath, ExternalConfigV1Beta1FilePath}

OverrideOption(override) == [option |-> "ReadConfigWithOverride", override |-> override]

\* The overrides: none, a .yaml and a .json path, inline text, and the
\* empty override.
ReadConfigOptionLists ==
  {<<>>,
   <<OverrideOption(<<>>)>>,
   <<OverrideOption(<<"o", ".", "y", "a", "m", "l">>)>>,
   <<OverrideOption(<<"o", ".", "j", "s", "o", "n">>)>>,
   <<OverrideOption(ConfigData(V1Version, <<>>))>>,
   <<OverrideOption(ConfigData(<<"v", "2">>, <<>>))>>,
   <<OverrideOption(ConfigData(V1Version, <<>>)),
     OverrideOption(ConfigData(V1Beta1Version,
                               Line(KeyName, IdentityString(ConfigIdentity))))>>}

\* What reading the override file yields.
OverrideFiles ==
  {[data |-> data, err |-> NoErr] :
     data \in {<<>>, ConfigData(V1Version, <<>>), ConfigData(<<"v", "2">>, <<>>)}}
  \cup {[data |-> <<>>, err |-> Err("NotExist", <<>>)]}

WriteOptionIdentity ==
  [option |-> "WriteConfigWithModuleIdentity", moduleIdentity |-> ConfigIdentity,
   dependencyModuleReferences |-> <<>>]

WriteOptionDependencies(refs) ==
  [option |-> "WriteConfigWithDependencyModuleReferences",
   moduleIdentity |-> NilModuleIdentity, dependencyModuleReferences |-> refs]

WriteOptionDocumentationComments ==
  [option |-> "WriteConfigWithDocumentationComments",
   moduleIdentity |-> NilModuleIdentity, dependencyModuleReferences |-> <<>>]

WriteOptionUncomment ==
  [option |-> "WriteConfigWithUncomment",
   moduleIdentity |-> NilModuleIdentity, dependencyModuleReferences |-> <<>>]

\* The option lists of WriteConfig: each option used or not, the references
\* given before or after the identity, and an empty list of references.
WriteConfigOptionLists ==
  {name \o deps \o doc \o uncomment :
     name \in {<<>>, <<WriteOptionIdentity>>},
     deps \in {<<>>, <<WriteOptionDependencies(<<ConfigReference>>)>>,
               <<WriteOptionDependencies(<<>>)>>},
     doc \in {<<>>, <<WriteOptionDocumentationComments>>},
     uncomment \in {<<>>, <<WriteOptionUncomment>>}}
  \cup {<<WriteOptionDependencies(<<ConfigReference>>), WriteOptionIdentity>>}

-----------------------------------------------------------------------------
(* State *)

VARIABLES
  call,      \* the constructor call about to be made, or "returned"
  bucket,    \* the source bucket the module is built over
  heap,      \* backing arrays of the pin slices: address -> pins
  module,    \* the constructed module, NilModule before and on failure
  err,       \* the error the constructor returned
  trace,     \* the steps the core builder took, in order
  ret,       \* what the last operation on the module returned, and how many
             \* FileInfos its walk had collected when it ended
  configBucket, \* bufconfig: the bucket configurations are read from and
                \* written into
  cfg           \* bufconfig: the last configuration call and what it returned

moduleVars == <<call, bucket, heap, module, err, trace, ret>>
configVars == <<configBucket, cfg>>
vars == <<call, bucket, heap, module, err, trace, ret, configBucket, cfg>>

Call(constructor, dependencyModulePins, lockPins, protoModule, options, fault) ==
  [constructor |-> constructor, dependencyModulePins |-> dependencyModulePins,
   lockPins |-> lockPins, protoModule |-> protoModule, options |-> options,
   fault |-> fault]

Returned == Call("returned", "nil", <<>>, NoProtoModule, <<>>, "none")

Ret(op, path, collected, fileInfos, moduleFile, pins, documentation, e) ==
  [op |-> op, path |-> path, collected |-> collected, fileInfos |-> fileInfos,
   moduleFile |-> moduleFile, pins |-> pins, documentation |-> documentation,
   err |-> e]

NoRet == Ret("none", <<>>, 0, <<>>, NilModuleFile, "nil", <<>>, NoErr)

\* A configuration call and its result.
Cfg(op, input, options, failing, config, exists, probes, puts, e) ==
  [op |-> op, input |-> input, options |-> options, failing |-> failing,
   config |-> config, exists |-> exists, probes |-> probes, puts |-> puts,
   err |-> e]

NoCfg == Cfg("none", <<>>, <<>>, {}, <<>>, FALSE, <<>>, <<>>, NoErr)

\* A caller about to construct a module from explicit pins holds its pin
\* slice; one about to construct from a bucket has a bucket whose lock names
\* the pins; one about to construct from a payload holds the payload.
ModuleInit ==
  /\ module = NilModule
  /\ err = NoErr
  /\ trace = <<>>
  /\ ret = NoRet
  /\ \/ \E given \in BucketsAndPins, options \in OptionLists,
              fault \in {"none", "get", "read"} :
          /\ bucket = given[1]
          /\ heap = [a \in {"arg"} |-> given[2]]
          /\ call = Call("newModuleForBucketWithDependencyModulePins", "arg",
                         <<>>, NoProtoModule, options, fault)
     \/ \E given \in BucketsAndPins, options \in OptionLists,
              fault \in {"none", "get", "read", "lock"} :
          /\ bucket = given[1]
          /\ heap = <<>>
          /\ call = Call("newModuleForBucket", "nil", given[2], NoProtoModule,
                         options, fault)
     \/ /\ bucket = <<>>
        /\ heap = <<>>
        /\ \E protoModule \in ProtoModules, options \in OptionLists,
                fault \in {"none", "put", "putdoc", "toread", "get", "read"} :
             call = Call("newModuleForProto", "nil", <<>>, protoModule,
                         options, fault)

\* The constructor returns: the module or the error, the heap as the builder
\* left it.
Constructed(built, sourceReadBucket) ==
  /\ module' = built.module
  /\ err' = built.err
  /\ heap' = built.heap
  /\ trace' = built.trace
  /\ bucket' = sourceReadBucket
  /\ call' = Returned
  /\ UNCHANGED <<ret, configBucket, cfg>>

NewModuleForBucketWithDependencyModulePins ==
  /\ call.constructor = "newModuleForBucketWithDependencyModulePins"
  /\ Constructed(
       newModuleForBucketWithDependencyModulePins(
         heap, bucket, call.dependencyModulePins, call.options, call.fault),
       bucket)

NewModuleForBucket ==
  /\ call.constructor = "newModuleForBucket"
  /\ Constructed(
       newModuleForBucket(heap, bucket, call.lockPins, call.options, call.fault),
       bucket)

NewModuleForProto ==
  /\ call.constructor = "newModuleForProto"
  /\ Constructed(
       newModuleForProto(heap, call.protoModule, call.options, call.fault),
       protoSourceReadBucket(call.protoModule, call.fault).bucket)

\* A reader calls an operation of the module.
CallSourceFileInfos ==
  /\ ~module.nil
  /\ \E walk \in Walks(module.sourceReadBucket) :
       LET r == SourceFileInfos(module, walk)
       IN ret' = Ret("SourceFileInfos", <<>>, walkCollected(module, walk), r.fileInfos, NilModuleFile,
                     "nil", <<>>, r.err)
  /\ UNCHANGED <<call, bucket, heap, module, err, trace, configBucket, cfg>>

CallTargetFileInfos ==
  /\ ~module.nil
  /\ \E walk \in Walks(module.sourceReadBucket) :
       LET r == TargetFileInfos(module, walk)
       IN ret' = Ret("TargetFileInfos", <<>>, walkCollected(module, walk), r.fileInfos, NilModuleFile,
                     "nil", <<>>, r.err)
  /\ UNCHANGED <<call, bucket, heap, module, err, trace, configBucket, cfg>>

CallGetModuleFile ==
  /\ ~module.nil
  /\ \E path \in Paths, fault \in {"none", "get"} :
       LET r == GetModuleFile(module, path, fault)
       IN ret' = Ret("GetModuleFile", path, 0, <<>>, r.moduleFile, "nil",
                     <<>>, r.err)
  /\ UNCHANGED <<call, bucket, heap, module, err, trace, configBucket, cfg>>

CallDependencyModulePins ==
  /\ ~module.nil
  /\ ret' = Ret("DependencyModulePins", <<>>, 0, <<>>, NilModuleFile,
                DependencyModulePins(module), <<>>, NoErr)
  /\ UNCHANGED <<call, bucket, heap, module, err, trace, configBucket, cfg>>

CallDocumentation ==
  /\ ~module.nil
  /\ ret' = Ret("Documentation", <<>>, 0, <<>>, NilModuleFile, "nil",
                Documentation(module), NoErr)
  /\ UNCHANGED <<call, bucket, heap, module, err, trace, configBucket, cfg>>

\* pins[i] = pin on a slice: a write into its backing array.
writePin(h, slice, i, pin) == [h EXCEPT ![slice] = [@ EXCEPT ![i] = pin]]

\* The caller of NewModuleForBucketWithDependencyModulePins still holds the
\* slice it passed, and writes an element of it.
CallerWritesPinList ==
  /\ ~module.nil
  /\ "arg" \in DOMAIN heap
  /\ \E i \in 1..Len(heap["arg"]), pin \in WrittenPins :
       heap' = writePin(heap, "arg", i, pin)
  /\ UNCHANGED <<call, bucket, module, err, trace, ret, configBucket, cfg>>

\* A reader writes an element of the slice DependencyModulePins returned.
ReaderWritesPinList ==
  /\ ~module.nil
  /\ ret.op = "DependencyModulePins"
  /\ \E i \in 1..Len(heap[ret.pins]), pin \in WrittenPins :
       heap' = writePin(heap, ret.pins, i, pin)
  /\ UNCHANGED <<call, bucket, module, err, trace, ret, configBucket, cfg>>

ModuleNext ==
  \/ NewModuleForBucketWithDependencyModulePins
  \/ NewModuleForBucket
  \/ NewModuleForProto
  \/ CallSourceFileInfos
  \/ CallTargetFileInfos
  \/ CallGetModuleFile
  \/ CallDependencyModulePins
  \/ CallDocumentation
  \/ CallerWritesPinList
  \/ ReaderWritesPinList

Init ==
  /\ ModuleInit
  /\ configBucket = <<>>
  /\ cfg = NoCfg

Next == ModuleNext

Spec == Init /\ [][Next]_vars

-----------------------------------------------------------------------------
(* bufconfig: the calls on a bucket *)

\* No module is under construction while configurations are resolved.
ConfigInit ==
  /\ call = Returned
  /\ bucket = <<>>
  /\ heap = <<>>
  /\ module = NilModule
  /\ err = NoErr
  /\ trace = <<>>
  /\ ret = NoRet
  /\ configBucket \in ConfigBuckets
  /\ cfg = NoCfg

CallConfigExists ==
  \E failing \in Failings :
    LET r == ConfigExists(configBucket, failing)
    IN /\ cfg' = Cfg("ConfigExists", <<>>, <<>>, failing, <<>>, r.exists,
                     r.probes, <<>>, r.err)
       /\ UNCHANGED <<moduleVars, configBucket>>

CallGetConfigForData ==
  \E data \in ConfigTexts :
    LET r == GetConfigForData(data)
    IN /\ cfg' = Cfg("GetConfigForData", data, <<>>, {}, r.config, FALSE,
                     <<>>, <<>>, r.err)
       /\ UNCHANGED <<moduleVars, configBucket>>

CallGetConfig ==
  \E failing \in Failings :
    LET r == GetConfig(configBucket, failing)
    IN /\ cfg' = Cfg("GetConfig", <<>>, <<>>, failing, r.config, FALSE,
                     <<>>, <<>>, r.err)
       /\ UNCHANGED <<moduleVars, configBucket>>

CallReadConfig ==
  \E options \in ReadConfigOptionLists, file \in OverrideFiles :
    LET r == ReadConfig(configBucket, options, file, {})
    IN /\ cfg' = Cfg("ReadConfig", file, options, {}, r.config, FALSE,
                     <<>>, <<>>, r.err)
       /\ UNCHANGED <<moduleVars, configBucket>>

CallWriteConfig ==
  \E options \in WriteConfigOptionLists, put \in BOOLEAN :
    LET r == WriteConfig(configBucket, options, put)
    IN /\ configBucket' = r.bucket
       /\ cfg' = Cfg("WriteConfig", <<>>, options, {}, <<>>, FALSE, <<>>,
                     r.puts, r.err)
       /\ UNCHANGED moduleVars

ConfigNext ==
  \/ CallConfigExists
  \/ CallGetConfigForData
  \/ CallGetConfig
  \/ CallReadConfig
  \/ CallWriteConfig

ConfigSpec == ConfigInit /\ [][ConfigNext]_vars

-----------------------------------------------------------------------------
(* Properties of the module core *)

\* The constructor returns in this step.
ConstructorReturns == call.constructor # "returned" /\ call'.constructor = "returned"

\* The pin list the constructor about to be called passes to the core
\* builder, in a one-element sequence; empty if it fails before the builder.
PinsPassedToCoreBuilder ==
  CASE call.constructor = "newModuleForBucketWithDependencyModulePins" ->
         <<heap[call.dependencyModulePins]>>
    [] call.constructor = "newModuleForBucket" ->
         IF call.fault = "lock" THEN <<>> ELSE <<call.lockPins>>
    [] call.constructor = "newModuleForProto" ->
         IF \/ \E i \in 1..Len(call.protoModule.files) :
                 \/ call.protoModule.files[i].path \in {PathParent}
                 \/ \E j \in 1..(i - 1) :
                      call.protoModule.files[j].path = call.protoModule.files[i].path
            \/ call.fault = "put" /\ call.protoModule.files # <<>>
            \/ call.fault = "putdoc" /\ call.protoModule.documentation # <<>>
            \/ call.fault = "toread"
            \/ MalformedPin \in Range(call.protoModule.dependencies)
           THEN <<>>
         ELSE <<call.protoModule.dependencies>>
    [] OTHER -> <<>>

SameIdentity(a, b) ==
  a.remote = b.remote /\ a.owner = b.owner /\ a.repository = b.repository

HasDuplicateIdentity(pins) ==
  \E i, j \in 1..Len(pins) : i < j /\ SameIdentity(pins[i], pins[j])

\* a is before b in the order by remote, then owner, then repository.
IdentityBefore(a, b) ==
  \/ StrLess(a.remote, b.remote)
  \/ a.remote = b.remote /\ StrLess(a.owner, b.owner)
  \/ a.remote = b.remote /\ a.owner = b.owner /\ StrLess(a.repository, b.repository)

SortedByIdentity(pins) ==
  \A i, j \in 1..Len(pins) : i < j => IdentityBefore(pins[i], pins[j])

\* C1: whenever a constructor passes a pin list to the core builder, a list
\* in which two pins share an identity makes the construction fail with a
\* duplicate-dependency error and no module; any other list, if a module is
\* returned, is what DependencyModulePins returns on it, sorted by (remote,
\* owner, repository), without two pins of one identity, and with the pins
\* that were passed.
C1_PinsUniqueAndSorted ==
  [][ConstructorReturns /\ PinsPassedToCoreBuilder # <<>> =>
       LET passed == PinsPassedToCoreBuilder[1]
       IN IF HasDuplicateIdentity(passed)
            THEN err'.kind = "DuplicateDependency" /\ module'.nil
          ELSE /\ err'.kind # "DuplicateDependency"
               /\ ~module'.nil =>
                    LET pins == heap'[DependencyModulePins(module')]
                    IN /\ SortedByIdentity(pins)
                       /\ ~HasDuplicateIdentity(pins)
                       /\ Range(pins) = Range(passed)
                       /\ Len(pins) = Len(passed)]_vars

\* Reached: a construction from two pins of one identity and different
\* commits has failed with the duplicate-dependency error.
C1_Witness ==
  /\ call.constructor = "returned"
  /\ module.nil
  /\ err.kind = "DuplicateDependency"
  /\ "arg" \in DOMAIN heap
  /\ Len(heap["arg"]) = 2
  /\ SameIdentity(heap["arg"][1], heap["arg"][2])
  /\ heap["arg"][1].commit # heap["arg"][2].commit

FileInfoPaths(fileInfos) == {fileInfos[i].path : i \in 1..Len(fileInfos)}

\* C2: a file of the source bucket whose path does not end in .proto is in
\* no FileInfo of SourceFileInfos or TargetFileInfos, is never returned by
\* GetModuleFile, and is not in the bucket the module keeps.
C2_OnlySourceFilesExposed ==
  ~module.nil =>
    \A p \in DOMAIN bucket :
      ~HasSuffix(p, DotProto) =>
        /\ p \notin DOMAIN getSourceReadBucket(module)
        /\ \A walk \in Walks(getSourceReadBucket(module)) :
             /\ p \notin FileInfoPaths(SourceFileInfos(module, walk).fileInfos)
             /\ p \notin FileInfoPaths(TargetFileInfos(module, walk).fileInfos)
        /\ \A fault \in {"none", "get"} : GetModuleFile(module, p, fault).moduleFile.nil
        /\ ret.op \in {"SourceFileInfos", "TargetFileInfos"} =>
             p \notin FileInfoPaths(ret.fileInfos)
        /\ ret.op = "GetModuleFile" /\ ret.path = p => ret.moduleFile.nil

\* Reached: a bucket holding the documentation file and a file of another
\* kind beside a source file, enumerated with the source file alone.
C2_Witness ==
  /\ ~module.nil
  /\ {PathA, PathText, DocumentationFilePath} \subseteq DOMAIN bucket
  /\ ret.op = "SourceFileInfos"
  /\ ~IsErr(ret.err)
  /\ FileInfoPaths(ret.fileInfos) = {PathA}

\* C4: in the core builder, with pins that pass validation: if the bucket
\* has no documentation file the module is built and Documentation is empty;
\* if the lookup, or the read of the file, fails otherwise, construction
\* fails with that error and no module; if the file is there and read,
\* Documentation is its content.
C4_DocumentationLookup ==
  [][/\ ConstructorReturns
     /\ PinsPassedToCoreBuilder # <<>>
     /\ ~HasDuplicateIdentity(PinsPassedToCoreBuilder[1])
     =>
       IF call.fault = "get"
         THEN module'.nil /\ err'.kind = "IO"
       ELSE IF DocumentationFilePath \notin DOMAIN bucket'
         THEN ~module'.nil /\ ~IsErr(err') /\ Documentation(module') = <<>>
       ELSE IF call.fault = "read"
         THEN module'.nil /\ err'.kind = "IO"
       ELSE /\ ~module'.nil
            /\ ~IsErr(err')
            /\ Documentation(module') = bucket'[DocumentationFilePath]]_vars

\* Reached: a module built over a bucket without the documentation file,
\* asked for its documentation.
C4_Witness ==
  /\ ~module.nil
  /\ DocumentationFilePath \notin DOMAIN bucket
  /\ DOMAIN bucket # {}
  /\ ret.op = "Documentation"
  /\ ret.documentation = <<>>

\* What a reader can observe of the module.
ModuleValue ==
  [dependencyModulePins |-> heap[DependencyModulePins(module)],
   moduleIdentity |-> getModuleIdentity(module),
   commit |-> getCommit(module),
   documentation |-> Documentation(module),
   files |-> getSourceReadBucket(module)]

\* C5: once a module is constructed, nothing a reader or the caller does
\* changes its dependency pins, identity, commit, documentation or files.
C5_ModuleImmutable ==
  [][~module.nil => ~module'.nil /\ ModuleValue' = ModuleValue]_vars


\* The position of a step in a trace, 0 if the step was not taken.
StepAt(steps, step) ==
  IF step \in Range(steps) THEN CHOOSE i \in 1..Len(steps) : steps[i] = step ELSE 0

\* The identity and the commit the modifiers give: those of the last modifier
\* that sets each.
GivenIdentity(options) ==
  IF options = <<>> THEN NilModuleIdentity ELSE options[Len(options)].moduleIdentity

GivenCommit(options) ==
  LET setters == {i \in 1..Len(options) :
                    options[i].option = "ModuleWithModuleIdentityAndCommit"}
  IN IF setters = {} THEN <<>>
     ELSE options[CHOOSE i \in setters : \A j \in setters : j <= i].commit

\* C9: the core builder validates the pins before it touches the bucket, so
\* a list with a repeated identity fails with no lookup of the documentation
\* file; it looks the documentation up in the unfiltered bucket, before the
\* extension filter; and it applies the modifiers last, so every FileInfo
\* of the module carries the identity and the commit the modifiers give.
C9_BuilderStepOrder ==
  [][ConstructorReturns /\ PinsPassedToCoreBuilder # <<>> =>
       /\ HasDuplicateIdentity(PinsPassedToCoreBuilder[1]) =>
            /\ module'.nil
            /\ trace' = <<"ValidateModulePinsUniqueByIdentity">>
       /\ ~module'.nil =>
            /\ StepAt(trace', "ValidateModulePinsUniqueByIdentity") = 1
            /\ StepAt(trace', "Get") = 2
            /\ StepAt(trace', "Get") < StepAt(trace', "MapReadBucket")
            /\ StepAt(trace', "options") = Len(trace')
            /\ DocumentationFilePath \in DOMAIN bucket' =>
                 /\ Documentation(module') = bucket'[DocumentationFilePath]
                 /\ DocumentationFilePath \notin DOMAIN getSourceReadBucket(module')
            /\ getModuleIdentity(module') = GivenIdentity(call.options)
            /\ getCommit(module') = GivenCommit(call.options)
            /\ \A walk \in Walks(getSourceReadBucket(module')) :
                 LET fileInfos == SourceFileInfos(module', walk).fileInfos
                 IN \A i \in 1..Len(fileInfos) :
                      /\ fileInfos[i].moduleIdentity = GivenIdentity(call.options)
                      /\ fileInfos[i].commit = GivenCommit(call.options)]_vars

\* Reached: a construction over a bucket that holds the documentation file
\* has failed on a repeated identity without any access to the bucket.
C9_Witness ==
  /\ call.constructor = "returned"
  /\ module.nil
  /\ err.kind = "DuplicateDependency"
  /\ trace = <<"ValidateModulePinsUniqueByIdentity">>
  /\ DocumentationFilePath \in DOMAIN bucket

\* The position at which a walk of the module's bucket first fails: the
\* object the store fails before, or the first object with an invalid path;
\* 0 if it does not fail.
FirstFailure(walk) ==
  LET failing == {i \in 1..(Len(walk.order) + 1) :
                    \/ walk.fault = "walk" /\ walk.after = i - 1
                    \/ /\ i <= Len(walk.order)
                       /\ \/ Head(walk.order[i]) = "/"
                          \/ HasPrefix(walk.order[i], <<".", ".", "/">>)
                          \/ ~HasSuffix(walk.order[i], DotProto)}
  IN IF failing = {} THEN 0 ELSE CHOOSE i \in failing : \A j \in failing : i <= j

\* An enumeration's result: all, sorted by path, or an error and nothing.
EnumerationPost(m, walk, r) ==
  LET first == FirstFailure(walk)
  IN IF first = 0
       THEN /\ ~IsErr(r.err)
            /\ Len(r.fileInfos) = Cardinality(DOMAIN getSourceReadBucket(m))
            /\ FileInfoPaths(r.fileInfos) = DOMAIN getSourceReadBucket(m)
            /\ \A i, j \in 1..Len(r.fileInfos) :
                 i < j => StrLess(r.fileInfos[i].path, r.fileInfos[j].path)
     ELSE /\ r.err.kind = "EnumerationFailure"
          /\ r.err.cause =
               IF walk.fault = "walk" /\ walk.after = first - 1 THEN "IO"
               ELSE "InvalidPath"
          /\ r.fileInfos = <<>>

\* C10: on a module, SourceFileInfos and TargetFileInfos return the same,
\* and either one FileInfo per file of the filtered bucket, sorted by path,
\* or, if the walk or a path's validation fails at any point, an
\* enumeration error wrapping the first failure and no FileInfo at all.
C10_EnumerationAllOrNothing ==
  ~module.nil =>
    /\ \A walk \in Walks(getSourceReadBucket(module)) :
         /\ EnumerationPost(module, walk, SourceFileInfos(module, walk))
         /\ EnumerationPost(module, walk, TargetFileInfos(module, walk))
    /\ ret.op \in {"SourceFileInfos", "TargetFileInfos"} =>
         IF IsErr(ret.err)
           THEN ret.err.kind = "EnumerationFailure" /\ ret.fileInfos = <<>>
         ELSE Len(ret.fileInfos) = ret.collected

\* Reached: an enumeration that failed after it had collected a FileInfo,
\* and returned none.
C10_Witness ==
  /\ ~module.nil
  /\ ret.op = "SourceFileInfos"
  /\ ret.err.kind = "EnumerationFailure"
  /\ ret.collected >= 1
  /\ ret.fileInfos = <<>>

-----------------------------------------------------------------------------
(* bufconfig: properties *)

\* "buf.mod" and "buf.yaml", as the contracts name them.
CanonicalConfigPath == <<"b", "u", "f", ".", "m", "o", "d">>
LegacyConfigPath == <<"b", "u", "f", ".", "y", "a", "m", "l">>

\* C3: ConfigExists returns true if buf.mod exists, otherwise true if
\* buf.yaml exists, otherwise false.  An error of the probe of buf.mod is
\* returned with false and buf.yaml is not probed; if buf.mod exists
\* buf.yaml is not probed; an error of the probe of buf.yaml is returned as
\* it is.
C3_ConfigExists ==
  cfg.op = "ConfigExists" =>
    IF CanonicalConfigPath \in cfg.failing
      THEN /\ ~cfg.exists
           /\ cfg.err.kind = "IO" /\ cfg.err.arg = CanonicalConfigPath
           /\ LegacyConfigPath \notin Range(cfg.probes)
    ELSE IF CanonicalConfigPath \in DOMAIN configBucket
      THEN /\ cfg.exists
           /\ ~IsErr(cfg.err)
           /\ LegacyConfigPath \notin Range(cfg.probes)
    ELSE IF LegacyConfigPath \in cfg.failing
      THEN /\ ~cfg.exists
           /\ cfg.err.kind = "IO" /\ cfg.err.arg = LegacyConfigPath
    ELSE /\ ~IsErr(cfg.err)
         /\ cfg.exists = (LegacyConfigPath \in DOMAIN configBucket)

\* ConfigExists found only the legacy file, after probing the canonical one.
C3_Witness ==
  /\ cfg.op = "ConfigExists"
  /\ cfg.failing = {}
  /\ CanonicalConfigPath \notin DOMAIN configBucket
  /\ LegacyConfigPath \in DOMAIN configBucket
  /\ cfg.exists
  /\ cfg.probes = <<CanonicalConfigPath, LegacyConfigPath>>

\* The override of a ReadConfig call: that of the last option, none
\* without an option.
OverrideOf(options) ==
  IF options = <<>> THEN <<>> ELSE options[Len(options)].override

\* The configuration text of a bucket the store serves without failure.
BucketContent(readBucket) ==
  IF CanonicalConfigPath \in DOMAIN readBucket THEN readBucket[CanonicalConfigPath]
  ELSE IF LegacyConfigPath \in DOMAIN readBucket THEN readBucket[LegacyConfigPath]
  ELSE <<>>

ReturnedDefaultConfig == cfg.config = <<DefaultConfig>> /\ ~IsErr(cfg.err)

\* C6: empty configuration input yields the default Config and no error:
\* GetConfigForData on data of length 0, GetConfig on a bucket with neither
\* buf.mod nor buf.yaml, and ReadConfig whose content, from the override
\* file, the inline override or the bucket, is empty.
C6_EmptyInputYieldsDefault ==
  /\ cfg.op = "GetConfigForData" /\ cfg.input = <<>> => ReturnedDefaultConfig
  /\ (/\ cfg.op = "GetConfig"
      /\ cfg.failing = {}
      /\ CanonicalConfigPath \notin DOMAIN configBucket
      /\ LegacyConfigPath \notin DOMAIN configBucket) => ReturnedDefaultConfig
  /\ cfg.op = "GetConfig" /\ cfg.failing = {} /\ BucketContent(configBucket) = <<>>
       => ReturnedDefaultConfig
  /\ cfg.op = "ReadConfig" =>
       LET override == OverrideOf(cfg.options)
       IN IF override = <<>>
            THEN BucketContent(configBucket) = <<>> => ReturnedDefaultConfig
          ELSE IF \/ HasSuffix(override, <<".", "y", "a", "m", "l">>)
                  \/ HasSuffix(override, <<".", "j", "s", "o", "n">>)
            THEN ~IsErr(cfg.input.err) /\ cfg.input.data = <<>>
                   => ReturnedDefaultConfig
          ELSE TRUE

\* GetConfig returned the default for a bucket with neither file, though the
\* bucket holds another file.
C6_Witness ==
  /\ cfg.op = "GetConfig"
  /\ cfg.failing = {}
  /\ DOMAIN configBucket = {LockFilePath}
  /\ cfg.config = <<DefaultConfig>>

\* C7: WriteConfig with dependency references and no module identity is
\* rejected with an option conflict before any write, the bucket unchanged;
\* a WriteConfig that succeeds writes exactly one file, at buf.mod.
C7_WriteConfig ==
  [][cfg'.op = "WriteConfig" =>
       LET options == cfg'.options
           hasIdentity ==
             \E i \in 1..Len(options) :
               options[i].option = "WriteConfigWithModuleIdentity"
           hasDependencies ==
             \E i \in 1..Len(options) :
               /\ options[i].option = "WriteConfigWithDependencyModuleReferences"
               /\ options[i].dependencyModuleReferences # <<>>
       IN /\ hasDependencies /\ ~hasIdentity =>
               /\ cfg'.err.kind = "OptionConflict"
               /\ cfg'.puts = <<>>
               /\ configBucket' = configBucket
          /\ ~IsErr(cfg'.err) =>
               /\ cfg'.puts = <<CanonicalConfigPath>>
               /\ DOMAIN configBucket' = DOMAIN configBucket \cup {CanonicalConfigPath}
               /\ \A path \in DOMAIN configBucket \ {CanonicalConfigPath} :
                    configBucket'[path] = configBucket[path]
               /\ configBucket'[CanonicalConfigPath] # <<>>]_vars

\* WriteConfig rejected references given without an identity.
C7_Witness ==
  /\ cfg.op = "WriteConfig"
  /\ cfg.options = <<WriteOptionDependencies(<<ConfigReference>>)>>
  /\ cfg.err.kind = "OptionConflict"
  /\ cfg.puts = <<>>

\* The bodies that are YAML.
DecodableBodies == ConfigBodies \ {<<"x", "\n">>}

\* C8: for data that is not empty GetConfigForData takes the version by
\* exact match against v1beta1 and v1: any other version fails with an
\* unsupported-version error naming it, no version is substituted, and a
\* call that fails returns no Config.
C8_VersionExactMatch ==
  cfg.op = "GetConfigForData" /\ cfg.input # <<>> =>
    /\ IsErr(cfg.err) => cfg.config = <<>>
    /\ ~IsErr(cfg.err) =>
         /\ Len(cfg.config) = 1
         /\ cfg.config[1].Version \in {V1Beta1Version, V1Version}
         /\ \E body \in ConfigBodies :
              cfg.input = ConfigData(cfg.config[1].Version, body)
    /\ \A version \in ConfigVersions \ {V1Beta1Version, V1Version},
          body \in DecodableBodies :
         cfg.input = ConfigData(version, body) =>
           cfg.err.kind = "UnsupportedVersion" /\ cfg.err.arg = version

\* GetConfigForData refused version "v2".
C8_Witness ==
  /\ cfg.op = "GetConfigForData"
  /\ cfg.input = ConfigData(<<"v", "2">>, <<>>)
  /\ cfg.err.kind = "UnsupportedVersion"
  /\ cfg.err.arg = <<"v", "2">>
  /\ cfg.config = <<>>

=============================================================================
